---- MODULE Spec2Model ----
(***************************************************************************)
(* Route-construction engine of view_mall.py: the cost model (step_cost,   *)
(* path_length), nearest-neighbour construction (nearest_neighbor), 2-opt  *)
(* refinement (two_opt) and the entry point compute_efficient_path.        *)
(*                                                                         *)
(* Python lists are modelled as TLA+ sequences; the Python index k of a    *)
(* list is position k+1 of the sequence (see At).  Shop indices keep their *)
(* Python values 0..n-1.                                                   *)
(*                                                                         *)
(* Coordinates are drawn from the corners of a 3-4-5 right triangle, so    *)
(* every planar distance is 0, 3, 4 or 5 and math.hypot is exact on them:  *)
(* the float arithmetic of the code is integer arithmetic on these inputs. *)
(***************************************************************************)
EXTENDS Integers, Sequences, FiniteSets, TLC

\* ---------------------------------------------------------------- bounds
\* longest location store
MaxShops == 5
\* longest location store in which two shops may stand on the same spot
MaxRepeatLen == 3
\* largest max_passes a caller hands to two_opt
MaxPassesArg == 2

\* default of two_opt's max_passes, used by compute_efficient_path
DefaultMaxPasses == 20

\* floors are numbered from 1, as generate_mall numbers them
Floors == {1, 2}
Points == {<<0, 0>>, <<3, 0>>, <<0, 4>>}
Penalties == {-1, 0, 1, 4}
PassesArgs == 0..MaxPassesArg

\* ---------------------------------------------------------------- data
\* Shop without its name: the engine never reads Shop.name.
Shop == {[floor |-> f, x |-> p[1], y |-> p[2]] : f \in Floors, p \in Points}

Abs(v) == IF v < 0 THEN -v ELSE v

\* math.hypot(dx, dy) on inputs whose result is a whole number
Hypot(dx, dy) == CHOOSE r \in 0..(Abs(dx) + Abs(dy)) : r * r = dx * dx + dy * dy

\* step_cost with the floor difference left signed (abs forgotten)
step_costSigned(a, b, fp) ==
    Hypot(a.x - b.x, a.y - b.y) + fp * (a.floor - b.floor)

step_cost(a, b, fp) ==
    LET dx == a.x - b.x
        dy == a.y - b.y
        horizontal == Hypot(dx, dy)
        vertical_penalty == fp * Abs(a.floor - b.floor)
    IN  horizontal + vertical_penalty

\* Python list index
At(s, k) == s[k + 1]

RECURSIVE SumSteps(_, _, _, _)
SumSteps(ord, sh, fp, k) ==
    IF k >= Len(ord) - 1 THEN 0
    ELSE step_cost(At(sh, At(ord, k)), At(sh, At(ord, k + 1)), fp)
         + SumSteps(ord, sh, fp, k + 1)

path_length(ord, sh, fp) == SumSteps(ord, sh, fp, 0)

\* the key compared as (x, y, floor)
KeyLessByX(a, b) ==
    \/ a.x < b.x
    \/ a.x = b.x /\ a.y < b.y
    \/ a.x = b.x /\ a.y = b.y /\ a.floor < b.floor

\* key=lambda i: (shops[i].floor, shops[i].x, shops[i].y), compared as tuples
KeyLess(a, b) ==
    \/ a.floor < b.floor
    \/ a.floor = b.floor /\ a.x < b.x
    \/ a.floor = b.floor /\ a.x = b.x /\ a.y < b.y

\* min(range(n), key=...): the first index whose key is minimal
StartIndex(sh) ==
    CHOOSE s \in 0..(Len(sh) - 1) :
        /\ \A k \in 0..(Len(sh) - 1) : ~KeyLess(At(sh, k), At(sh, s))
        /\ \A k \in 0..(s - 1) : KeyLess(At(sh, s), At(sh, k))

\* the nearest unvisited shop by planar distance alone
NearestSetPlanar(sh, cur, unv, fp) ==
    {c \in unv : \A d \in unv :
        step_cost(At(sh, cur), At(sh, c), 0) <= step_cost(At(sh, cur), At(sh, d), 0)}

\* min(unvisited, key=step_cost from current): every index min() can return.
\* Which of several tied minima it returns depends on the set's iteration
\* order, so all of them are possible outcomes.
NearestSet(sh, cur, unv, fp) ==
    {c \in unv : \A d \in unv :
        step_cost(At(sh, cur), At(sh, c), fp) <= step_cost(At(sh, cur), At(sh, d), fp)}

\* seg_cost(i1, i2, j1, j2) closure of two_opt
seg_cost(ord, sh, fp, i1, i2, j1, j2) ==
    step_cost(At(sh, At(ord, i1)), At(sh, At(ord, i2)), fp)
    + step_cost(At(sh, At(ord, j1)), At(sh, At(ord, j2)), fp)

\* the comparison turned round
ImprovesWrongWay(before, after) == before < after

\* after + 1e-9 < before.  Costs here are whole numbers, on which the
\* tolerance changes nothing: after + 1e-9 < before iff after < before.
Improves(before, after) == after < before

\* the loop condition without the pass budget
WhileCondNoLimit(imp, ps, mp) == imp

\* while improved and passes < max_passes
WhileCond(imp, ps, mp) == imp /\ ps < mp

\* order[i + 1:j + 1] = reversed(order[i:j])
ReverseSegmentShift(ord, ii, jj) ==
    [k \in 1..Len(ord) |->
        IF ii + 1 <= k - 1 /\ k - 1 <= jj THEN At(ord, ii + jj - (k - 1))
        ELSE ord[k]]

\* order[i:j + 1] = reversed(order[i:j + 1])
ReverseSegmentFromI(ord, ii, jj) ==
    [k \in 1..Len(ord) |->
        IF ii <= k - 1 /\ k - 1 <= jj THEN At(ord, ii + jj - (k - 1))
        ELSE ord[k]]

\* order[i + 1:j + 2] = reversed(order[i + 1:j + 2])
ReverseSegmentToJ1(ord, ii, jj) ==
    [k \in 1..Len(ord) |->
        IF ii + 1 <= k - 1 /\ k - 1 <= jj + 1 THEN At(ord, ii + 2 + jj - (k - 1))
        ELSE ord[k]]

\* order[i + 1:j + 1] = reversed(order[i + 1:j + 1])
ReverseSegment(ord, ii, jj) ==
    [k \in 1..Len(ord) |->
        IF ii + 1 <= k - 1 /\ k - 1 <= jj THEN At(ord, ii + 1 + jj - (k - 1))
        ELSE ord[k]]

\* the loop body without "improved = True"
ScanResultNoFlag(ord, sh, fp, ii, jj, imp) ==
    LET before == seg_cost(ord, sh, fp, ii, ii + 1, jj, jj + 1)
        after == seg_cost(ord, sh, fp, ii, jj, ii + 1, jj + 1)
    IN  IF Improves(before, after)
        THEN [order |-> ReverseSegment(ord, ii, jj), improved |-> imp]
        ELSE [order |-> ord, improved |-> imp]

\* body of the inner for loop at the pair (ii, jj): the order and the flag
\* it leaves behind
ScanResult(ord, sh, fp, ii, jj, imp) ==
    LET before == seg_cost(ord, sh, fp, ii, ii + 1, jj, jj + 1)
        after == seg_cost(ord, sh, fp, ii, jj, ii + 1, jj + 1)
    IN  IF Improves(before, after)
        THEN [order |-> ReverseSegment(ord, ii, jj), improved |-> TRUE]
        ELSE [order |-> ord, improved |-> imp]

\* ---------------------------------------------------------------- state
VARIABLES
    shops,          \* the location store (for a bare step_cost call: <<a, b>>)
    floor_penalty,  \* argument floor_penalty
    max_passes,     \* argument max_passes of the running two_opt call
    entry,          \* which function the caller invoked
    pc,             \* position in the code
    order,          \* the list being built / refined
    unvisited,      \* nearest_neighbor's set
    current,        \* nearest_neighbor's current index
    steps,          \* number of extension steps nearest_neighbor has done
    i, j,           \* two_opt's loop indices
    improved,       \* two_opt's flag
    passes,         \* two_opt's pass counter
    revs,           \* reversals applied in the running pass
    order0,         \* the order as it was handed to the running two_opt call
    call,           \* 1 for the first two_opt call, 2 for the repeated one
    first,          \* improved and passes as the first two_opt call left them
    total           \* the cost returned (path_length or step_cost)

vars == <<shops, floor_penalty, max_passes, entry, pc, order, unvisited, current,
          steps, i, j, improved, passes, revs, order0, call, first, total>>

n == Len(shops)

Distinct(s) == \A a, b \in 1..Len(s) : a # b => s[a] # s[b]

\* Location stores: generated coordinates are random reals, so shops stand on
\* distinct spots; stores with coinciding shops are explored up to MaxRepeatLen.
Stores ==
    UNION {{s \in [1..m -> Shop] : m <= MaxRepeatLen \/ Distinct(s)} : m \in 0..MaxShops}

Identity(m) == [k \in 1..m |-> k - 1]
Reversed(m) == [k \in 1..m |-> m - k]
\* orders a caller hands to two_opt directly
InputOrders(m) == {Identity(m), Reversed(m)}

Init ==
    /\ floor_penalty \in Penalties
    /\ \/ /\ entry = "compute_efficient_path"
          /\ shops \in Stores
          /\ max_passes = DefaultMaxPasses
          /\ order = << >>
          /\ pc = "nearest_neighbor"
       \/ /\ entry = "two_opt"
          /\ shops \in Stores
          /\ max_passes \in PassesArgs
          /\ order \in InputOrders(Len(shops))
          /\ pc = "two_opt"
       \/ /\ entry = "step_cost"
          /\ shops \in [1..2 -> Shop]
          /\ max_passes = DefaultMaxPasses
          /\ order = << >>
          /\ pc = "step_cost"
    /\ unvisited = {}
    /\ current = 0
    /\ steps = 0
    /\ i = 0
    /\ j = 0
    /\ improved = FALSE
    /\ passes = 0
    /\ revs = 0
    /\ order0 = order
    /\ call = 1
    /\ first = [improved |-> FALSE, passes |-> 0]
    /\ total = 0

\* ---------------------------------------------------------------- step_cost
\* a caller evaluates step_cost(a, b, floor_penalty) on its own
StepCostCall ==
    /\ pc = "step_cost"
    /\ total' = step_cost(shops[1], shops[2], floor_penalty)
    /\ pc' = "done"
    /\ UNCHANGED <<shops, floor_penalty, max_passes, entry, order, unvisited, current,
                   steps, i, j, improved, passes, revs, order0, call, first>>

\* ---------------------------------------------------------------- nearest_neighbor
NNStart ==
    /\ pc = "nearest_neighbor"
    /\ IF n = 0
       THEN /\ order' = << >>
            /\ pc' = "nn_return"
            /\ UNCHANGED <<unvisited, current>>
       ELSE LET start == StartIndex(shops) IN
            /\ unvisited' = (0..(n - 1)) \ {start}
            /\ order' = <<start>>
            /\ current' = start
            /\ pc' = "nn_while"
    /\ UNCHANGED <<shops, floor_penalty, max_passes, entry, steps, i, j, improved,
                   passes, revs, order0, call, first, total>>

NNExtend ==
    /\ pc = "nn_while"
    /\ unvisited # {}
    /\ \E next_idx \in NearestSet(shops, current, unvisited, floor_penalty) :
        /\ unvisited' = unvisited \ {next_idx}
        /\ order' = Append(order, next_idx)
        /\ current' = next_idx
    /\ steps' = steps + 1
    /\ UNCHANGED <<shops, floor_penalty, max_passes, entry, pc, i, j, improved,
                   passes, revs, order0, call, first, total>>

NNExit ==
    /\ pc = "nn_while"
    /\ unvisited = {}
    /\ pc' = "nn_return"
    /\ UNCHANGED <<shops, floor_penalty, max_passes, entry, order, unvisited, current,
                   steps, i, j, improved, passes, revs, order0, call, first, total>>

\* init = nearest_neighbor(shops, floor_penalty); two_opt(init, shops, floor_penalty)
NNReturn ==
    /\ pc = "nn_return"
    /\ order0' = order
    /\ pc' = "two_opt"
    /\ UNCHANGED <<shops, floor_penalty, max_passes, entry, order, unvisited, current,
                   steps, i, j, improved, passes, revs, call, first, total>>

\* ---------------------------------------------------------------- two_opt
TwoOptEnter ==
    /\ pc = "two_opt"
    /\ improved' = TRUE
    /\ passes' = 0
    /\ revs' = 0
    /\ pc' = IF Len(order) < 4 THEN "two_opt_return" ELSE "two_opt_while"
    /\ UNCHANGED <<shops, floor_penalty, max_passes, entry, order, unvisited, current,
                   steps, i, j, order0, call, first, total>>

PassBegin ==
    /\ pc = "two_opt_while"
    /\ WhileCond(improved, passes, max_passes)
    /\ improved' = FALSE
    /\ passes' = passes + 1
    /\ revs' = 0
    /\ i' = 0
    /\ j' = 2
    /\ pc' = "two_opt_for"
    /\ UNCHANGED <<shops, floor_penalty, max_passes, entry, order, unvisited, current,
                   steps, order0, call, first, total>>

\* one iteration of the inner for loop, then the loops' advance
ScanPair ==
    /\ pc = "two_opt_for"
    /\ LET r == ScanResult(order, shops, floor_penalty, i, j, improved) IN
        /\ order' = r.order
        /\ improved' = r.improved
        /\ revs' = IF r.order # order THEN revs + 1 ELSE revs
    /\ IF j + 1 < Len(order) - 1
       THEN /\ j' = j + 1
            /\ UNCHANGED <<i, pc>>
       ELSE IF i + 1 < Len(order) - 3
            THEN /\ i' = i + 1
                 /\ j' = i + 3
                 /\ UNCHANGED pc
            ELSE /\ pc' = "two_opt_while"
                 /\ UNCHANGED <<i, j>>
    /\ UNCHANGED <<shops, floor_penalty, max_passes, entry, unvisited, current,
                   steps, passes, order0, call, first, total>>

LoopExit ==
    /\ pc = "two_opt_while"
    /\ ~WhileCond(improved, passes, max_passes)
    /\ pc' = "two_opt_return"
    /\ UNCHANGED <<shops, floor_penalty, max_passes, entry, order, unvisited, current,
                   steps, i, j, improved, passes, revs, order0, call, first, total>>

\* return order, to compute_efficient_path
TwoOptReturn ==
    /\ pc = "two_opt_return"
    /\ entry = "compute_efficient_path"
    /\ pc' = "path_length"
    /\ UNCHANGED <<shops, floor_penalty, max_passes, entry, order, unvisited, current,
                   steps, i, j, improved, passes, revs, order0, call, first, total>>

\* return order, to a caller that hands the result to two_opt once more
\* (same shops, floor_penalty and max_passes)
TwoOptAgain ==
    /\ pc = "two_opt_return"
    /\ entry = "two_opt"
    /\ call = 1
    /\ call' = 2
    /\ first' = [improved |-> improved, passes |-> passes]
    /\ order0' = order
    /\ pc' = "two_opt"
    /\ UNCHANGED <<shops, floor_penalty, max_passes, entry, order, unvisited, current,
                   steps, i, j, improved, passes, revs, total>>

TwoOptDone ==
    /\ pc = "two_opt_return"
    /\ entry = "two_opt"
    /\ call = 2
    /\ pc' = "done"
    /\ UNCHANGED <<shops, floor_penalty, max_passes, entry, order, unvisited, current,
                   steps, i, j, improved, passes, revs, order0, call, first, total>>

\* total = path_length(improved, shops, floor_penalty); return improved, total
PathTotal ==
    /\ pc = "path_length"
    /\ total' = path_length(order, shops, floor_penalty)
    /\ pc' = "done"
    /\ UNCHANGED <<shops, floor_penalty, max_passes, entry, order, unvisited, current,
                   steps, i, j, improved, passes, revs, order0, call, first>>

Next ==
    \/ StepCostCall
    \/ NNStart
    \/ NNExtend
    \/ NNExit
    \/ NNReturn
    \/ TwoOptEnter
    \/ PassBegin
    \/ ScanPair
    \/ LoopExit
    \/ TwoOptReturn
    \/ TwoOptAgain
    \/ TwoOptDone
    \/ PathTotal

Spec == Init /\ [][Next]_vars

\* ---------------------------------------------------------------- properties
IsPermutation(ord, m) ==
    /\ Len(ord) = m
    /\ {ord[k] : k \in 1..Len(ord)} = 0..(m - 1)

\* (floor, x, y) tuples in lexicographic order
TupleLeq(a, b) ==
    \/ a.floor < b.floor
    \/ a.floor = b.floor /\ a.x < b.x
    \/ a.floor = b.floor /\ a.x = b.x /\ a.y <= b.y

SamePlace(a, b) == a.x = b.x /\ a.y = b.y /\ a.floor = b.floor

Cost(ord) == path_length(ord, shops, floor_penalty)

EdgeCost(a, b) == step_cost(At(shops, a), At(shops, b), floor_penalty)

InPath == entry = "compute_efficient_path"
InTwoOpt == entry = "two_opt"

\* nearest_neighbor has returned / two_opt is running or has returned
AfterNN == pc \in {"nn_return", "two_opt", "two_opt_while", "two_opt_for",
                   "two_opt_return", "path_length", "done"}
InOrAfterTwoOpt == pc \in {"two_opt", "two_opt_while", "two_opt_for",
                           "two_opt_return", "path_length", "done"}
TwoOptReturned == pc \in {"two_opt_return", "path_length", "done"}

\* C1: for floor_penalty >= 0 the order is a permutation of 0..n-1 when
\* nearest_neighbor returns, after every reversal of two_opt, and when
\* compute_efficient_path (or two_opt) returns.
C1_OrderIsPermutation ==
    (entry # "step_cost" /\ floor_penalty >= 0 /\ AfterNN) => IsPermutation(order, n)

C1_Witness ==
    /\ InPath /\ floor_penalty >= 0 /\ pc = "done"
    /\ n = MaxShops /\ order # order0 /\ IsPermutation(order, n)

\* C2: for floor_penalty >= 0 and every max_passes, the total cost of the order
\* two_opt returns is at most the total cost of the order it was given (in
\* compute_efficient_path: the nearest-neighbour order).
C2_RefinedCostNotWorse ==
    (entry # "step_cost" /\ floor_penalty >= 0 /\ TwoOptReturned)
        => Cost(order) <= Cost(order0)

C2_Witness ==
    /\ InPath /\ floor_penalty >= 0 /\ pc = "done"
    /\ Cost(order) < Cost(order0)

\* C3 as stated: for max_passes >= 1 and floor_penalty >= 0 a second two_opt
\* call on the result of the first returns an order of identical total cost.
C3_SecondRunSameCost ==
    (InTwoOpt /\ pc = "done" /\ floor_penalty >= 0 /\ max_passes >= 1)
        => Cost(order) = Cost(order0)

\* C3 amended: the second call returns an order of identical total cost
\* whenever the first call returned through the guard (fewer than 4 entries) or
\* left its loop with improved = False, i.e. its last pass applied no reversal.
C3_SecondRunSameCostWhenConverged ==
    (/\ InTwoOpt /\ pc = "done" /\ floor_penalty >= 0 /\ max_passes >= 1
     /\ (Len(order) < 4 \/ ~first.improved))
        => Cost(order) = Cost(order0)

C3_Witness ==
    /\ InTwoOpt /\ pc = "done" /\ floor_penalty >= 0 /\ max_passes >= 1
    /\ Len(order) >= 4 /\ ~first.improved /\ first.passes >= 2
    /\ Cost(order) = Cost(order0)

\* C4 as stated: with a negative floor_penalty, or a non-positive max_passes
\* handed to two_opt, no call ever returns an order or a cost.
InvalidConfiguration ==
    \/ floor_penalty < 0
    \/ InTwoOpt /\ max_passes <= 0

C4_InvalidConfigurationNeverReturns ==
    InvalidConfiguration => pc \notin {"nn_return", "two_opt_return", "done"}

\* C5 as stated: for floor_penalty >= 0, step_cost(a, b) = 0 iff a and b have
\* the same x, y and floor.
C5_ZeroIffSamePlace ==
    (entry = "step_cost" /\ pc = "done" /\ floor_penalty >= 0)
        => (total = 0 <=> SamePlace(shops[1], shops[2]))

\* C5 amended: for floor_penalty > 0, step_cost(a, b) = 0 iff a and b have the
\* same x, y and floor.
C5_ZeroIffSamePlacePositivePenalty ==
    (entry = "step_cost" /\ pc = "done" /\ floor_penalty > 0)
        => (total = 0 <=> SamePlace(shops[1], shops[2]))

C5_Witness ==
    /\ entry = "step_cost" /\ pc = "done" /\ floor_penalty > 0
    /\ total = 0 /\ SamePlace(shops[1], shops[2])

\* C6: for a non-empty store the first element of the order nearest_neighbor
\* returns is an index whose (floor, x, y) tuple is smallest, and it is the
\* lowest such index (a function of the store alone).
C6_StartIsLexSmallest ==
    (InPath /\ pc = "nn_return" /\ n >= 1) =>
        /\ \A k \in 0..(n - 1) : TupleLeq(At(shops, At(order, 0)), At(shops, k))
        /\ \A k \in 0..(At(order, 0) - 1) : At(shops, k) # At(shops, At(order, 0))

C6_Witness ==
    /\ InPath /\ pc = "nn_return" /\ n >= 3
    /\ At(order, 0) # 0
    /\ \E k \in 0..(n - 1) : k # At(order, 0) /\ At(shops, k) = At(shops, At(order, 0))

\* C7: nearest_neighbor does exactly n-1 extension steps on a store of n >= 1
\* shops, and every order[k], k >= 1, is at least as cheap to reach from
\* order[k-1] as any index not in order[0..k-1].
C7_GreedyExtension ==
    (InPath /\ pc = "nn_return" /\ n >= 1) =>
        /\ steps = n - 1
        /\ \A k \in 1..(Len(order) - 1) :
            \A c \in (0..(n - 1)) \ {At(order, m) : m \in 0..(k - 1)} :
                EdgeCost(At(order, k - 1), At(order, k)) <= EdgeCost(At(order, k - 1), c)

C7_Witness ==
    /\ InPath /\ pc = "nn_return" /\ n = MaxShops /\ steps = n - 1
    /\ floor_penalty > 0
    /\ \E k \in 1..(n - 1) : At(shops, At(order, k)).floor # At(shops, At(order, k - 1)).floor

\* the passes two_opt may still begin, and the pairs one pass scans
Budget == IF max_passes < 0 THEN 0 ELSE max_passes
PairsPerPass == IF Len(order) < 4 THEN 0 ELSE ((Len(order) - 2) * (Len(order) - 3)) \div 2
\* pairs the running pass has still to scan, (i, j) included: the rest of row i
\* and the rows after it
PairsLeft ==
    (Len(order) - 1 - j) + ((Len(order) - 4 - i) * (Len(order) - 3 - i)) \div 2
TwoOptRunning == pc \in {"two_opt", "two_opt_while", "two_opt_for"}
\* a bound on the steps the running two_opt call has left
TwoOptRank ==
    CASE pc = "two_opt" -> Budget * (PairsPerPass + 1) + 3
      [] pc = "two_opt_while" -> (Budget - passes) * (PairsPerPass + 1) + 2
      [] pc = "two_opt_for" -> (Budget - passes) * (PairsPerPass + 1) + 2 + PairsLeft
      [] OTHER -> 0

\* the running two_opt call has a next step: the call enters its loop or
\* returns, the while statement begins a pass or leaves the loop, and the for
\* loops stand on a pair 0 <= i, i + 2 <= j, j + 1 <= n - 1 of the order
TwoOptCanStep ==
    /\ pc = "two_opt" => ENABLED TwoOptEnter
    /\ pc = "two_opt_while" => ENABLED (PassBegin \/ LoopExit)
    /\ pc = "two_opt_for" => (0 <= i /\ i + 2 <= j /\ j + 1 <= Len(order) - 1)

\* C8: two_opt terminates (a running call always has a next step, and every
\* step lowers a non-negative bound on the steps left), runs at most
\* max_passes passes, leaves the loop right after the first pass that applied
\* no reversal, and starts another pass whenever the last pass applied a
\* reversal and fewer than max_passes passes have run.
C8_PassesAndTermination ==
    /\ [](entry # "step_cost" => passes <= Budget)
    /\ []TwoOptCanStep
    /\ [][TwoOptRunning => (TwoOptRank' < TwoOptRank /\ TwoOptRank' >= 0)]_vars
    /\ [][pc = "two_opt_while" =>
            /\ (passes >= 1 /\ revs = 0) => pc' = "two_opt_return"
            /\ passes >= max_passes => pc' = "two_opt_return"
            /\ (passes >= 1 /\ revs > 0 /\ passes < max_passes)
                   => (pc' = "two_opt_for" /\ passes' = passes + 1)]_vars

C8_Witness ==
    /\ pc = "two_opt_return" /\ passes = 2 /\ revs = 0 /\ passes < max_passes

\* C9: a reversal of order[i+1..j] is applied only when after < before, and
\* the total cost right after it is the total cost right before it minus
\* (before - after).
C9_ReversalReducesCost ==
    [][(pc = "two_opt_for" /\ order' # order) =>
        LET before == EdgeCost(At(order, i), At(order, i + 1))
                      + EdgeCost(At(order, j), At(order, j + 1))
            after == EdgeCost(At(order, i), At(order, j))
                     + EdgeCost(At(order, i + 1), At(order, j + 1))
        IN  /\ after < before
            /\ Cost(order') = Cost(order) - (before - after)
            /\ Cost(order') < Cost(order)]_vars

C9_Witness ==
    /\ pc = "two_opt_for" /\ revs >= 1 /\ j >= i + 3
    /\ Cost(order) < Cost(order0)

\* C10: two_opt leaves the first and the last element of the order where they
\* were, so the tour of compute_efficient_path starts at the nearest-neighbour
\* start index and ends at the last index nearest_neighbor appended.
C10_EndsStayInPlace ==
    (entry # "step_cost" /\ InOrAfterTwoOpt /\ Len(order) >= 1) =>
        /\ At(order, 0) = At(order0, 0)
        /\ At(order, Len(order) - 1) = At(order0, Len(order0) - 1)
        /\ (InPath /\ pc = "done") =>
            /\ \A k \in 0..(n - 1) : TupleLeq(At(shops, At(order, 0)), At(shops, k))
            /\ At(order, Len(order) - 1) = current

C10_Witness ==
    /\ InPath /\ pc = "done" /\ order # order0
    /\ At(order, 0) = At(order0, 0)
    /\ At(order, Len(order) - 1) = current

====
